---- MODULE Spec2Model ----
(***************************************************************************)
(* Planning-poker WebSocket server (src/unnamed/part_000): the room store, *)
(* the connection -> player index, the session registry and the handlers   *)
(* of the 'message' and 'close' events of a connection.                    *)
(*                                                                         *)
(* Representation                                                          *)
(*  - a JS Map is a sequence of entries in insertion order (room.players)  *)
(*    or a function whose DOMAIN is the key set (rooms, players,           *)
(*    sessionTokens);                                                      *)
(*  - a text value (name, room code) is a sequence of one-character        *)
(*    strings, so that trimming, stripping and upper-casing are computed;  *)
(*  - the player object created by create_room / join_room is stored in    *)
(*    the room entry it was put in; players[ws] holds the reference to it  *)
(*    (its id and roomCode).  PlayerAliasInv below checks that the         *)
(*    reference always resolves to that very entry;                        *)
(*  - uuidv4() and generateSessionToken() return fresh values: both are    *)
(*    drawn from the counter nextId;                                       *)
(*  - ws.send on a socket that is not OPEN delivers nothing;               *)
(*  - a handler is an operator from the server state s and the event to    *)
(*    the state it leaves and the messages it sends, in order: [s, out].   *)
(*    The actions apply the handlers to the current state;                 *)
(*  - the events are the payloads checkRateLimit accepted (parsed ones and *)
(*    those the try/catch answers) and the close of a connection;         *)
(*  - Spec is the server handling the messages that passed the rate check, *)
(*    at one instant of the clock; RateSpec is the rate check in front of  *)
(*    it and SweepSpec the session sweep of setInterval, both with the     *)
(*    clock of Date.now(), which never goes backwards.                     *)
(***************************************************************************)
EXTENDS Integers, Sequences, FiniteSets, TLC

\* ---------------------------------------------------------------- bounds
NumConns == 3
NumCodes == 2
MaxPlayers == 3
\* the rate limiter: connections sending, and the last clock value
NumRateConns == 2
MaxNow == 5000
\* the session sweep: sessions created, and runs of the sweep
MaxSessions == 2
MaxSweeps == 8

\* ------------------------------------------------------ program constants
RATE_LIMIT_WINDOW_MS == 5000
RATE_LIMIT_MAX_MESSAGES == 20
SESSION_TOKEN_EXPIRY_MS == 30 * 60 * 1000
\* the period of setInterval(cleanupExpiredSessions, ...)
SWEEP_INTERVAL_MS == 5 * 60 * 1000
MAX_NAME_LENGTH == 20
MAX_ROOMS == 1000
MAX_PLAYERS_PER_ROOM == 50

\* JS null (never used as a text value of the model)
Null == "null"

\* the two non-ASCII cards of the source are written "1/2" and "coffee"
CARD_VALUES == <<"0", "1/2", "1", "2", "3", "5", "8", "13", "21", "?", "coffee">>

\* the letters and digits, those easily taken for one another included
GenChars_alnum ==
  <<"A","B","C","D","E","F","G","H","I","J","K","L","M","N","O","P","Q","R",
    "S","T","U","V","W","X","Y","Z","0","1","2","3","4","5","6","7","8","9">>

\* the alphabet generateRoomCode draws from
GenChars ==
  <<"A","B","C","D","E","F","G","H","J","K","L","M","N","P","Q","R",
    "S","T","U","V","W","X","Y","Z","2","3","4","5","6","7","8","9">>

Conns == 1..NumConns

\* the connections whose messages the rate limiter specification follows
RateConns == 1..NumRateConns

\* the steps of the clock between two messages
Deltas == { RATE_LIMIT_WINDOW_MS - 1, RATE_LIMIT_WINDOW_MS }

\* the codes Math.random() is allowed to produce in this model
CodePool == { <<"A", "A", "A", GenChars[i]>> : i \in 1..NumCodes }

\* a field that is missing or null, and a value that is neither that nor a
\* JS string (a number, an object)
Undefined == <<"#undefined">>
NonString == <<"#not-a-string">>

\* inputs of the messages
NameInputs == { <<"<", "b", ">">>, <<" ", "A", "n", " ">> }
CodeInputs ==
  CodePool \cup { <<"a", "a", "a", "a">>, <<"A", "A">>, NonString, Undefined }
\* the successive results of Math.random() in generateRoomCode
DrawInputs == [1..2 -> CodePool]
CardInputs == { Null, "5", "8", "X" }

VARIABLES
  status,        \* status[ws]: "open" or "closed"
  rooms,         \* rooms: code -> [state, players]
  players,       \* players: ws -> reference to its current player object
  sessionTokens, \* sessionTokens: token -> [playerId, roomCode, name]
  nextId,        \* next fresh value of uuidv4 / generateSessionToken
  now,           \* Date.now()
  messageTimestamps, \* messageTimestamps[ws]: ws.messageTimestamps
  accepted,      \* accepted[ws]: the times of all messages checkRateLimit let in
  lastSweep,     \* the time the interval timer of the sweep last fired
  genCode,       \* the local variable code of a call of generateRoomCode
  game,          \* the client's Game object: players, gameState
  timeouts,      \* the room states the client's 400 ms timers will apply
  received,      \* the room state of the last message the client received
  wsClient       \* the client's WebSocketClient object and its socket

vars == <<status, rooms, players, sessionTokens, nextId>>

rateVars == <<now, messageTimestamps, accepted, lastSweep, genCode>>

clientVars == <<game, timeouts, received, wsClient>>

allVars == <<vars, rateVars, clientVars>>

\* the server state as one value
State ==
  [status |-> status, rooms |-> rooms, players |-> players,
   sessionTokens |-> sessionTokens, nextId |-> nextId, now |-> now]

\* ------------------------------------------------------------- text values
IsString(s) == s \notin {Undefined, NonString}

UpperChar(ch) ==
  CASE ch = "a" -> "A" [] ch = "b" -> "B" [] ch = "z" -> "Z" [] OTHER -> ch

toUpperCase(s) == [i \in 1..Len(s) |-> UpperChar(s[i])]

AlnumUpper ==
  {"A","B","C","D","E","F","G","H","I","J","K","L","M","N","O","P","Q","R",
   "S","T","U","V","W","X","Y","Z","0","1","2","3","4","5","6","7","8","9"}

RECURSIVE TrimLeft(_)
TrimLeft(s) == IF s # <<>> /\ Head(s) = " " THEN TrimLeft(Tail(s)) ELSE s

RECURSIVE TrimRight(_)
TrimRight(s) ==
  IF s # <<>> /\ s[Len(s)] = " " THEN TrimRight(SubSeq(s, 1, Len(s) - 1)) ELSE s

trim(s) == TrimRight(TrimLeft(s))

\* index of the first ">" of s at or after position i, 0 if there is none
RECURSIVE NextGt(_, _)
NextGt(s, i) ==
  IF i > Len(s) THEN 0 ELSE IF s[i] = ">" THEN i ELSE NextGt(s, i + 1)

\* the first .replace of sanitizeName: every <...> tag is removed
RECURSIVE StripTags(_)
StripTags(s) ==
  IF s = <<>> THEN <<>>
  ELSE IF Head(s) = "<" /\ NextGt(s, 2) # 0
       THEN StripTags(SubSeq(s, NextGt(s, 2) + 1, Len(s)))
       ELSE <<Head(s)>> \o StripTags(Tail(s))

\* the double-quote, single-quote and back-quote characters
DQuote == "dquote"
SQuote == "squote"
BQuote == "bquote"

DangerousChars ==
  {"<", ">", DQuote, SQuote, BQuote, "&", ";", "(", ")", "[", "]", "{", "}"}

\* the second .replace of sanitizeName: every dangerous character is removed
StripDangerous(s) == SelectSeq(s, LAMBDA ch : ch \notin DangerousChars)

slice(s, n) == SubSeq(s, 1, IF Len(s) < n THEN Len(s) ELSE n)

NullName == <<"#null">>

sanitizeName(name) ==
  IF name = <<>> \/ ~IsString(name) THEN NullName
  ELSE LET sanitized == slice(StripDangerous(StripTags(trim(name))), MAX_NAME_LENGTH)
       IN  IF Len(sanitized) >= 1 THEN sanitized ELSE NullName

SeqToSet(s) == { s[i] : i \in 1..Len(s) }

\* isValidCard without the whitelist
isValidCard_any(card) == TRUE

isValidCard(card) == card = Null \/ card \in SeqToSet(CARD_VALUES)

isValidRoomCode(code) ==
  IF code = <<>> \/ ~IsString(code) THEN FALSE
  ELSE Len(code) = 4 /\ \A i \in 1..4 : toUpperCase(code)[i] \in AlnumUpper

\* ------------------------------------------------------------ room.players
\* position of the entry keyed by ws in the entry sequence m, 0 if absent
RECURSIVE IndexOf(_, _, _)
IndexOf(m, ws, i) ==
  IF i > Len(m) THEN 0 ELSE IF m[i].ws = ws THEN i ELSE IndexOf(m, ws, i + 1)

MapHas(m, ws) == IndexOf(m, ws, 1) # 0

MapGet(m, ws) == m[IndexOf(m, ws, 1)]

\* Map.prototype.set: an existing key keeps its position
MapSet(m, ws, p) ==
  IF MapHas(m, ws) THEN [m EXCEPT ![IndexOf(m, ws, 1)] = p] ELSE Append(m, p)

\* Map.prototype.delete
MapDelete(m, ws) == SelectSeq(m, LAMBDA e : e.ws # ws)

Put(f, k, v) == [x \in DOMAIN f \cup {k} |-> IF x = k THEN v ELSE f[x]]

Remove(f, k) == [x \in DOMAIN f \ {k} |-> f[x]]

\* players.get(ws) is defined
HasPlayer(s, ws) == ws \in DOMAIN s.players

\* the object players.get(ws) refers to
PlayerOf(s, ws) == MapGet(s.rooms[s.players[ws].roomCode].players, ws)

\* ---------------------------------------------------------------- messages
NoWs == 0

NoState == [roomCode |-> <<>>, state |-> "none", players |-> <<>>]

Msg(to, type) ==
  [to |-> to, type |-> type, text |-> "", playerId |-> 0, sessionToken |-> 0,
   roomState |-> NoState, revealOrder |-> <<>>]

ErrorMsg(to, text) == [Msg(to, "error") EXCEPT !.text = text]

\* getRoomState that never nulls the card
getRoomState_leak(rms, roomCode, includeVotes) ==
  LET room == rms[roomCode]
  IN  [roomCode |-> roomCode,
       state    |-> room.state,
       players  |-> [i \in 1..Len(room.players) |->
                      [id          |-> room.players[i].id,
                       name        |-> room.players[i].name,
                       isHost      |-> room.players[i].isHost,
                       hasSelected |-> room.players[i].selectedCard # Null,
                       card        |-> room.players[i].selectedCard]]]

\* getRoomState applied to the room store rms (cardValues, a constant, is
\* left out of the snapshot)
getRoomState(rms, roomCode, includeVotes) ==
  LET room == rms[roomCode]
  IN  [roomCode |-> roomCode,
       state    |-> room.state,
       players  |-> [i \in 1..Len(room.players) |->
                      [id          |-> room.players[i].id,
                       name        |-> room.players[i].name,
                       isHost      |-> room.players[i].isHost,
                       hasSelected |-> room.players[i].selectedCard # Null,
                       card        |-> IF includeVotes \/ room.state = "revealed"
                                       THEN room.players[i].selectedCard
                                       ELSE Null]]]

\* ws.send(data): nothing is delivered to a socket that is not OPEN
send(s, ws, msg) == IF s.status[ws] = "open" THEN <<msg>> ELSE <<>>

\* broadcastToRoom sending to every open connection of the server
broadcastToRoom_all(s, roomCode, msg, excludeWs) ==
  LET rcpt == SelectSeq([c \in 1..Len(s.status) |-> c],
                        LAMBDA c : s.status[c] = "open")
  IN  [i \in 1..Len(rcpt) |-> [msg EXCEPT !.to = rcpt[i]]]

\* broadcastToRoom leaving out the host of the room
broadcastToRoom_notHost(s, roomCode, msg, excludeWs) ==
  IF roomCode \notin DOMAIN s.rooms THEN <<>>
  ELSE LET rcpt == SelectSeq(s.rooms[roomCode].players,
                     LAMBDA e : ~e.isHost /\ s.status[e.ws] = "open")
       IN  [i \in 1..Len(rcpt) |-> [msg EXCEPT !.to = rcpt[i].ws]]

\* broadcastToRoom: message msg (its "to" is filled in per recipient) to the
\* open sockets of the room, in the order of room.players
broadcastToRoom(s, roomCode, msg, excludeWs) ==
  IF roomCode \notin DOMAIN s.rooms THEN <<>>
  ELSE LET rcpt == SelectSeq(s.rooms[roomCode].players,
                     LAMBDA e : e.ws # excludeWs /\ s.status[e.ws] = "open")
       IN  [i \in 1..Len(rcpt) |-> [msg EXCEPT !.to = rcpt[i].ws]]

\* ---------------------------------------------------------------- handlers
Result(s, out) == [s |-> s, out |-> out]

\* an error reply to the sender, nothing changed
Reject(s, ws, text) == Result(s, send(s, ws, ErrorMsg(ws, text)))

\* the message is dropped without a reply
Ignore(s) == Result(s, <<>>)

NoCode == <<>>

\* generateRoomCode returning its first draw without looking at rooms
generateRoomCode_first(rms, draws) ==
  IF draws = <<>> THEN NoCode ELSE Head(draws)

\* generateRoomCode: draws are the successive random codes; the first one
\* that is not a key of rooms is returned (NoCode: every draw collided)
RECURSIVE generateRoomCode(_, _)
generateRoomCode(rms, draws) ==
  IF draws = <<>> THEN NoCode
  ELSE IF Head(draws) \in DOMAIN rms THEN generateRoomCode(rms, Tail(draws))
  ELSE Head(draws)

NewPlayer(s, ws, name, isHost, roomCode) ==
  [ws |-> ws, id |-> s.nextId, name |-> name, isHost |-> isHost,
   selectedCard |-> Null, roomCode |-> roomCode, sessionToken |-> s.nextId]

\* create_room and join_room without the session entry
Register_noSession(s, ws, player) ==
  [s EXCEPT
     !.players = Put(@, ws, [id |-> player.id, roomCode |-> player.roomCode]),
     !.nextId = @ + 1]

\* players.set(ws, player); sessionTokens.set(sessionToken, {...})
Register(s, ws, player) ==
  [s EXCEPT
     !.players = Put(@, ws, [id |-> player.id, roomCode |-> player.roomCode]),
     !.sessionTokens = Put(@, player.sessionToken,
        [playerId |-> player.id, roomCode |-> player.roomCode,
         name |-> player.name, createdAt |-> s.now]),
     !.nextId = @ + 1]

\* create_room and join_room without the test of the sanitized name
NameMissing_never(rawName) == FALSE

\* const name = sanitizeName(message.name); if (!name)
NameMissing(rawName) == sanitizeName(rawName) = NullName

\* create_room without the room limit
AtCapacity_never(rms) == FALSE

\* rooms.size >= MAX_ROOMS
AtCapacity(rms) == Cardinality(DOMAIN rms) >= MAX_ROOMS

\* handleMessage, case 'create_room'
HandleCreateRoom(s, ws, rawName, draws) ==
  IF AtCapacity(s.rooms)
  THEN Reject(s, ws, "Server is at capacity. Please try again later.")
  ELSE IF NameMissing(rawName)
  THEN Reject(s, ws, "Valid name is required (1-20 characters)")
  ELSE LET roomCode == generateRoomCode(s.rooms, draws)
           player == NewPlayer(s, ws, sanitizeName(rawName), TRUE, roomCode)
           s1 == [s EXCEPT !.rooms = Put(@, roomCode,
                    [state |-> "waiting", players |-> <<player>>])]
           s2 == Register(s1, ws, player)
       IN  Result(s2, send(s2, ws, [Msg(ws, "room_created") EXCEPT
                         !.playerId = player.id,
                         !.sessionToken = player.sessionToken,
                         !.roomState = getRoomState(s2.rooms, roomCode, FALSE)]))

\* join_room without the player limit
RoomFull_never(m) == FALSE

\* room.players.size >= MAX_PLAYERS_PER_ROOM
RoomFull(m) == Len(m) >= MAX_PLAYERS_PER_ROOM

\* handleMessage, case 'join_room'; a roomCode without toUpperCase raises a
\* TypeError, which the 'message' handler answers with 'Invalid message format'
HandleJoinRoom(s, ws, rawCode, rawName) ==
  IF rawCode = NonString
  THEN Reject(s, ws, "Invalid message format")
  ELSE IF rawCode = Undefined \/ ~isValidRoomCode(toUpperCase(rawCode))
  THEN Reject(s, ws, "Invalid room code format")
  ELSE IF toUpperCase(rawCode) \notin DOMAIN s.rooms
  THEN Reject(s, ws, "Room not found")
  ELSE IF RoomFull(s.rooms[toUpperCase(rawCode)].players)
  THEN Reject(s, ws, "Room is full")
  ELSE IF NameMissing(rawName)
  THEN Reject(s, ws, "Valid name is required (1-20 characters)")
  ELSE LET roomCode == toUpperCase(rawCode)
           player == NewPlayer(s, ws, sanitizeName(rawName), FALSE, roomCode)
           s1 == [s EXCEPT !.rooms[roomCode].players = MapSet(@, ws, player)]
           s2 == Register(s1, ws, player)
       IN  Result(s2,
             send(s2, ws, [Msg(ws, "joined_room") EXCEPT
                     !.playerId = player.id,
                     !.sessionToken = player.sessionToken,
                     !.roomState = getRoomState(s2.rooms, roomCode, FALSE)])
             \o broadcastToRoom(s2, roomCode,
                  [Msg(NoWs, "player_joined") EXCEPT
                     !.playerId = player.id,
                     !.roomState = getRoomState(s2.rooms, roomCode, FALSE)],
                  ws))

\* reset_round and start_round without the clearing of the cards
ClearCards_keep(m) == m

\* room.players.forEach(p => p.selectedCard = null)
ClearCards(m) == [i \in 1..Len(m) |-> [m[i] EXCEPT !.selectedCard = Null]]

\* the guard of the host-only cases without the isHost test
NotHost_playerOnly(s, ws) == ~HasPlayer(s, ws)

\* the guard of the host-only cases: !player || !player.isHost
NotHost(s, ws) == ~HasPlayer(s, ws) \/ ~PlayerOf(s, ws).isHost

\* handleMessage, case 'start_round'
HandleStartRound(s, ws) ==
  IF NotHost(s, ws) THEN Ignore(s)
  ELSE IF s.players[ws].roomCode \notin DOMAIN s.rooms THEN Ignore(s)
  ELSE LET roomCode == s.players[ws].roomCode
           s1 == [s EXCEPT !.rooms[roomCode].players = ClearCards(@),
                           !.rooms[roomCode].state = "voting"]
       IN  Result(s1, broadcastToRoom(s1, roomCode,
                        [Msg(NoWs, "round_started") EXCEPT
                           !.roomState = getRoomState(s1.rooms, roomCode, FALSE)],
                        NoWs))

\* the guard of select_card on the room without the state test
NotVoting_roomOnly(s, roomCode) == roomCode \notin DOMAIN s.rooms

\* the guard of select_card on the room: !room || room.state !== 'voting'
NotVoting(s, roomCode) ==
  roomCode \notin DOMAIN s.rooms \/ s.rooms[roomCode].state # "voting"

\* handleMessage, case 'select_card'
\* select_card writing the card into every entry of the room
SetCard_all(m, ws, card) ==
  [i \in 1..Len(m) |-> [m[i] EXCEPT !.selectedCard = card]]

\* player.selectedCard = message.card, player being the entry of ws in m
SetCard(m, ws, card) ==
  [m EXCEPT ![IndexOf(m, ws, 1)].selectedCard = card]

HandleSelectCard(s, ws, card) ==
  IF ~HasPlayer(s, ws) THEN Ignore(s)
  ELSE IF NotVoting(s, s.players[ws].roomCode) THEN Ignore(s)
  ELSE IF ~isValidCard(card) THEN Reject(s, ws, "Invalid card value")
  ELSE LET roomCode == s.players[ws].roomCode
           m == s.rooms[roomCode].players
           s1 == [s EXCEPT !.rooms[roomCode].players = SetCard(m, ws, card)]
       IN  Result(s1, broadcastToRoom(s1, roomCode,
                        [Msg(NoWs, "player_selected") EXCEPT
                           !.playerId = s.players[ws].id,
                           !.roomState = getRoomState(s1.rooms, roomCode, FALSE)],
                        NoWs))

\* a reveal order that lists only the players who selected a card
RevealOrder_voters(m) ==
  LET voters == SelectSeq(m, LAMBDA p : p.selectedCard # Null)
  IN  [i \in 1..Len(voters) |->
         [id |-> voters[i].id, name |-> voters[i].name,
          card |-> voters[i].selectedCard]]

\* room.players.forEach((p) => revealOrder.push({id, name, card}))
RevealOrder(m) ==
  [i \in 1..Len(m) |->
     [id |-> m[i].id, name |-> m[i].name, card |-> m[i].selectedCard]]

\* handleMessage, case 'reveal_cards'
HandleRevealCards(s, ws) ==
  IF NotHost(s, ws) THEN Ignore(s)
  ELSE IF s.players[ws].roomCode \notin DOMAIN s.rooms THEN Ignore(s)
  ELSE LET roomCode == s.players[ws].roomCode
           s1 == [s EXCEPT !.rooms[roomCode].state = "revealed"]
           revealOrder == RevealOrder(s1.rooms[roomCode].players)
       IN  Result(s1, broadcastToRoom(s1, roomCode,
                        [Msg(NoWs, "cards_revealed") EXCEPT
                           !.revealOrder = revealOrder,
                           !.roomState = getRoomState(s1.rooms, roomCode, TRUE)],
                        NoWs))

\* handleMessage, case 'reset_round'
HandleResetRound(s, ws) ==
  IF NotHost(s, ws) THEN Ignore(s)
  ELSE IF s.players[ws].roomCode \notin DOMAIN s.rooms THEN Ignore(s)
  ELSE LET roomCode == s.players[ws].roomCode
           s1 == [s EXCEPT !.rooms[roomCode].players = ClearCards(@),
                           !.rooms[roomCode].state = "waiting"]
       IN  Result(s1, broadcastToRoom(s1, roomCode,
                        [Msg(NoWs, "round_reset") EXCEPT
                           !.roomState = getRoomState(s1.rooms, roomCode, FALSE)],
                        NoWs))

\* close_reveal doing what reset_round does
HandleCloseReveal_reset(s, ws) == HandleResetRound(s, ws)

\* handleMessage, case 'close_reveal'
HandleCloseReveal(s, ws) ==
  IF NotHost(s, ws) THEN Ignore(s)
  ELSE Result(s, broadcastToRoom(s, s.players[ws].roomCode,
                   Msg(NoWs, "reveal_closed"), NoWs))

\* the close handler without the deletion of the emptied room
DeleteIfEmpty_keep(rms, roomCode) == rms

\* if (room.players.size === 0) rooms.delete(player.roomCode)
DeleteIfEmpty(rms, roomCode) ==
  IF Len(rms[roomCode].players) = 0 THEN Remove(rms, roomCode) ELSE rms

\* if (player.isHost && room.players.size > 0) newHost.isHost = true, where
\* newHost is the first entry of the map
\* handover on every close, to the last entry of the room
Handover_last(m, player) ==
  IF Len(m) > 0 THEN [m EXCEPT ![Len(m)].isHost = TRUE] ELSE m

Handover(m, player) ==
  IF player.isHost /\ Len(m) > 0 THEN [m EXCEPT ![1].isHost = TRUE] ELSE m

\* the handler of the close event of connection ws (its readyState is CLOSED
\* when the handler runs)
OnClose(s, ws) ==
  LET s0 == [s EXCEPT !.status[ws] = "closed"]
  IN  IF ~HasPlayer(s0, ws) THEN Result(s0, <<>>)
      ELSE IF s0.players[ws].roomCode \notin DOMAIN s0.rooms
      THEN Result([s0 EXCEPT !.players = Remove(@, ws)], <<>>)
      ELSE LET player == PlayerOf(s0, ws)
               roomCode == s0.players[ws].roomCode
               rest == MapDelete(s0.rooms[roomCode].players, ws)
               after == Handover(rest, player)
               s1 == [s0 EXCEPT !.rooms[roomCode].players = after]
               s2 == [s1 EXCEPT !.rooms = DeleteIfEmpty(@, roomCode),
                                !.players = Remove(@, ws)]
           IN  Result(s2,
                 (IF player.isHost /\ Len(rest) > 0
                  THEN send(s0, after[1].ws, Msg(after[1].ws, "became_host"))
                  ELSE <<>>)
                 \o (IF Len(after) = 0 THEN <<>>
                     ELSE broadcastToRoom(s1, roomCode,
                            [Msg(NoWs, "player_left") EXCEPT
                               !.playerId = player.id,
                               !.roomState = getRoomState(s1.rooms, roomCode, FALSE)],
                            NoWs)))

\* ------------------------------------------------------------------ events
\* a parsed message as handleMessage receives it, or the close of a socket
Event(kind, ws, type) ==
  [kind |-> kind, ws |-> ws, type |-> type, name |-> Undefined,
   roomCode |-> Undefined, card |-> "X", draws |-> <<>>]

\* a switch with a default case that answers with an error
NoCase_error(s, ws, message) == Reject(s, ws, "Unknown message type")

\* the switch of handleMessage has no default case: a message.type that no
\* case matches falls through to the end of the function
NoCase(s, ws, message) == Ignore(s)

\* handleMessage: the switch on message.type
handleMessage(s, ws, message) ==
  CASE message.type = "create_room" ->
         HandleCreateRoom(s, ws, message.name, message.draws)
    [] message.type = "join_room" ->
         HandleJoinRoom(s, ws, message.roomCode, message.name)
    [] message.type = "start_round" -> HandleStartRound(s, ws)
    [] message.type = "select_card" -> HandleSelectCard(s, ws, message.card)
    [] message.type = "reveal_cards" -> HandleRevealCards(s, ws)
    [] message.type = "reset_round" -> HandleResetRound(s, ws)
    [] message.type = "close_reveal" -> HandleCloseReveal(s, ws)
    [] OTHER -> NoCase(s, ws, message)

\* the 'message' handler without its try/catch around a parser that never
\* throws
TryHandleMessage_nocatch(s, ws, e) == handleMessage(s, ws, e)

\* the 'message' handler after the rate check:
\*   try { handleMessage(ws, JSON.parse(data)) } catch (e) { ws.send(error) }
\* JSON.parse throws on a payload that is not JSON (kind "unparsable"), and
\* message.type throws when the payload is the JSON value null (kind "null")
TryHandleMessage(s, ws, e) ==
  IF e.kind \in {"unparsable", "null"}
  THEN Reject(s, ws, "Invalid message format")
  ELSE handleMessage(s, ws, e)

Handle(s, e) ==
  IF e.kind = "close" THEN OnClose(s, e.ws) ELSE TryHandleMessage(s, e.ws, e)

\* the filter of checkRateLimit keeping the timestamp that is a whole window old
InWindow_inclusive(ts, t) ==
  SelectSeq(ts, LAMBDA x : t - x <= RATE_LIMIT_WINDOW_MS)

\* ws.messageTimestamps.filter(t => now - t < RATE_LIMIT_WINDOW_MS)
InWindow(ts, t) ==
  SelectSeq(ts, LAMBDA x : t - x < RATE_LIMIT_WINDOW_MS)

\* checkRateLimit on the timestamps ts of a connection at time t: the verdict
\* and the timestamps it leaves
\* checkRateLimit time-stamping the messages it turns away too
checkRateLimit_stampAll(ts, t) ==
  [ok |-> Len(InWindow(ts, t)) < RATE_LIMIT_MAX_MESSAGES,
   ts |-> Append(InWindow(ts, t), t)]

checkRateLimit(ts, t) ==
  IF Len(InWindow(ts, t)) >= RATE_LIMIT_MAX_MESSAGES
  THEN [ok |-> FALSE, ts |-> InWindow(ts, t)]
  ELSE [ok |-> TRUE, ts |-> Append(InWindow(ts, t), t)]

\* the whole 'message' handler of connection e.ws at time t, with mts the
\* messageTimestamps of the connections
OnMessage(s, mts, t, e) ==
  LET c == checkRateLimit(mts[e.ws], t)
      r == IF c.ok THEN TryHandleMessage(s, e.ws, e)
           ELSE Reject(s, e.ws, "Rate limit exceeded. Please slow down.")
  IN  [s |-> r.s, out |-> r.out, ok |-> c.ok,
       mts |-> [mts EXCEPT ![e.ws] = c.ts]]

\* the events connection ws can raise
EventsOf(ws) ==
  { [Event("message", ws, "create_room") EXCEPT !.name = n, !.draws = d] :
      n \in NameInputs, d \in DrawInputs }
  \cup { [Event("message", ws, "join_room") EXCEPT !.name = n, !.roomCode = c] :
      n \in NameInputs, c \in CodeInputs }
  \cup { [Event("message", ws, "select_card") EXCEPT !.card = c] : c \in CardInputs }
  \cup { Event("message", ws, t) :
      t \in {"start_round", "reveal_cards", "reset_round", "close_reveal",
             "transfer_host"} }
  \cup { Event("unparsable", ws, ""), Event("null", ws, "") }
  \cup { Event("close", ws, "") }

\* an event can happen in state s: its socket is open, and the model has a
\* fresh id and a free drawn code left for the player or room it may create
Possible(s, e) ==
  /\ s.status[e.ws] = "open"
  /\ e.type \in {"create_room", "join_room"} => s.nextId <= MaxPlayers
  /\ e.type = "create_room" => generateRoomCode(s.rooms, e.draws) # NoCode

Events(s) == { e \in UNION { EventsOf(ws) : ws \in Conns } : Possible(s, e) }

\* -------------------------------------------------------------- the client
\* the connection whose client is followed
ClientWs == 1

\* Game.updateState
updateState(g, roomState) ==
  [g EXCEPT !.players = roomState.players, !.gameState = roomState.state]

\* playersContainer.querySelector('[data-player-id=...]') finds an element:
\* renderPlayers makes one element for each of this.players
Displayed(g, playerId) ==
  \E i \in 1..Len(g.players) : g.players[i].id = playerId

\* Game.onPlayerLeft, c being the Game object and its pending timers
onPlayerLeft(c, msg) ==
  IF Displayed(c.game, msg.playerId)
  THEN [c EXCEPT !.timeouts = Append(@, msg.roomState)]
  ELSE [c EXCEPT !.game = updateState(@, msg.roomState)]

\* the handlers registered for the type of msg
onMessage(c, msg) ==
  IF msg.type \in {"room_created", "joined_room", "round_started",
                   "player_selected", "cards_revealed", "round_reset",
                   "player_joined"}
  THEN [c EXCEPT !.game = updateState(@, msg.roomState)]
  ELSE IF msg.type = "player_left" THEN onPlayerLeft(c, msg)
  ELSE c

\* the messages of out, in order, handled by the client
RECURSIVE onMessages(_, _)
onMessages(c, out) ==
  IF out = <<>> THEN c ELSE onMessages(onMessage(c, Head(out)), Tail(out))

\* the room state of the last message of out that has one, last if none has
RECURSIVE LastRoomState(_, _)
LastRoomState(last, out) ==
  IF out = <<>> THEN last
  ELSE LastRoomState(IF Head(out).roomState # NoState
                     THEN Head(out).roomState ELSE last, Tail(out))

\* this.maxReconnectAttempts
maxReconnectAttempts == 5

\* the values of Math.random() tried, in thousandths
RandomInputs == {0, 500, 999}

\* the close codes tried: normal closure, going away, abnormal closure
CloseCodes == {1000, 1001, 1006}

\* no timer is pending
NoTimer == 0

\* Math.round(n / d) for d > 0: the nearest integer, halves upwards
Round(n, d) == (2 * n + d) \div (2 * d)

RECURSIVE Pow2(_)
Pow2(n) == IF n = 0 THEN 1 ELSE 2 * Pow2(n - 1)

\* the base delays growing by 1000 ms each attempt
baseDelay_linear(attempts) == 1000 * attempts

\* Math.min(1000 * Math.pow(2, attempts - 1), 16000)
baseDelay(attempts) ==
  IF 1000 * Pow2(attempts - 1) < 16000 THEN 1000 * Pow2(attempts - 1)
  ELSE 16000

\* Math.round(baseDelay + baseDelay * 0.25 * (Math.random() - 0.5)), rnd
\* being Math.random() in thousandths
Delay(base, rnd) == Round(4000 * base + base * (rnd - 500), 4000)

\* the attempt counted and its timer set
Schedule(c, rnd) ==
  LET n == c.reconnectAttempts + 1
      delay == Delay(baseDelay(n), rnd)
  IN  [c EXCEPT !.reconnectAttempts = n,
                !.timer = delay,
                !.scheduled = Append(@, [base |-> baseDelay(n), delay |-> delay])]

\* attemptReconnect that never gives up
attemptReconnect_always(c, rnd) == Schedule(c, rnd)

\* WebSocketClient.attemptReconnect; the field scheduled keeps the delays
\* scheduled since the socket was last open, lost whether connection_lost
\* has been dispatched
attemptReconnect(c, rnd) ==
  IF c.reconnectAttempts < maxReconnectAttempts
  THEN Schedule(c, rnd)
  ELSE [c EXCEPT !.lost = TRUE]

\* WebSocketClient.connect: this.ws = new WebSocket(wsUrl)
connect(c) == [c EXCEPT !.ws = "connecting"]

\* this.ws.onopen
onopen(c) ==
  [c EXCEPT !.ws = "open", !.reconnectAttempts = 0, !.scheduled = <<>>]

\* this.ws.onclose; the field code keeps event.code
onclose(c, code, rnd) ==
  LET c1 == [c EXCEPT !.ws = "closed", !.code = code]
  IN  IF code # 1000 THEN attemptReconnect(c1, rnd) ELSE c1

\* new Game(), new WebSocketClient()
ClientInit ==
  /\ game = [players |-> <<>>, gameState |-> "waiting"]
  /\ timeouts = <<>>
  /\ received = NoState
  /\ wsClient = [ws |-> "null", reconnectAttempts |-> 0, timer |-> NoTimer,
                 lost |-> FALSE, scheduled |-> <<>>, code |-> 0]

\* -------------------------------------------------------------------- Init
\* the server with NumConns accepted connections and no message handled yet
ServerInit ==
  /\ status = [c \in Conns |-> "open"]
  /\ rooms = <<>>
  /\ players = <<>>
  /\ sessionTokens = <<>>
  /\ nextId = 1

\* ws.messageTimestamps = [] on 'connection'; setInterval at the start
RateInit ==
  /\ now = 0
  /\ messageTimestamps = [c \in RateConns |-> <<>>]
  /\ accepted = [c \in RateConns |-> <<>>]
  /\ lastSweep = 0
  /\ genCode = <<>>

Init == ServerInit /\ RateInit /\ ClientInit

ApplyState(r) ==
  /\ status' = r.s.status
  /\ rooms' = r.s.rooms
  /\ players' = r.s.players
  /\ sessionTokens' = r.s.sessionTokens
  /\ nextId' = r.s.nextId

Apply(r) == ApplyState(r) /\ UNCHANGED <<rateVars, clientVars>>

CreateRoom(ws, name, draws) ==
  LET e == [Event("message", ws, "create_room") EXCEPT !.name = name, !.draws = draws]
  IN  /\ Possible(State, e)
      /\ Apply(Handle(State, e))

JoinRoom(ws, code, name) ==
  LET e == [Event("message", ws, "join_room") EXCEPT !.name = name, !.roomCode = code]
  IN  /\ Possible(State, e)
      /\ Apply(Handle(State, e))

StartRound(ws) ==
  /\ Possible(State, Event("message", ws, "start_round"))
  /\ Apply(Handle(State, Event("message", ws, "start_round")))

SelectCard(ws, card) ==
  LET e == [Event("message", ws, "select_card") EXCEPT !.card = card]
  IN  /\ Possible(State, e)
      /\ Apply(Handle(State, e))

RevealCards(ws) ==
  /\ Possible(State, Event("message", ws, "reveal_cards"))
  /\ Apply(Handle(State, Event("message", ws, "reveal_cards")))

ResetRound(ws) ==
  /\ Possible(State, Event("message", ws, "reset_round"))
  /\ Apply(Handle(State, Event("message", ws, "reset_round")))

CloseReveal(ws) ==
  /\ Possible(State, Event("message", ws, "close_reveal"))
  /\ Apply(Handle(State, Event("message", ws, "close_reveal")))

OtherMessage(ws) ==
  /\ Possible(State, Event("message", ws, "transfer_host"))
  /\ Apply(Handle(State, Event("message", ws, "transfer_host")))

BadPayload(ws, kind) ==
  /\ Possible(State, Event(kind, ws, ""))
  /\ Apply(Handle(State, Event(kind, ws, "")))

Close(ws) ==
  /\ Possible(State, Event("close", ws, ""))
  /\ Apply(Handle(State, Event("close", ws, "")))

Next ==
  \/ \E ws \in Conns, name \in NameInputs, draws \in DrawInputs :
       CreateRoom(ws, name, draws)
  \/ \E ws \in Conns, code \in CodeInputs, name \in NameInputs :
       JoinRoom(ws, code, name)
  \/ \E ws \in Conns : StartRound(ws)
  \/ \E ws \in Conns, card \in CardInputs : SelectCard(ws, card)
  \/ \E ws \in Conns : RevealCards(ws)
  \/ \E ws \in Conns : ResetRound(ws)
  \/ \E ws \in Conns : CloseReveal(ws)
  \/ \E ws \in Conns : OtherMessage(ws)
  \/ \E ws \in Conns, kind \in {"unparsable", "null"} : BadPayload(ws, kind)
  \/ \E ws \in Conns : Close(ws)

Spec == Init /\ [][Next]_allVars

\* ------------------------------------------------- the rate limiter in front
\* the payloads the connections of the rate limiter specification send
RateEvents(ws) == { Event("message", ws, "transfer_host"),
                    Event("unparsable", ws, "") }

\* Date.now() has advanced by d
Tick(d) ==
  /\ now + d <= MaxNow
  /\ now' = now + d
  /\ UNCHANGED <<vars, messageTimestamps, accepted, lastSweep, genCode, clientVars>>

\* a payload arrives on connection e.ws
Message(e) ==
  LET r == OnMessage(State, messageTimestamps, now, e)
  IN  /\ status[e.ws] = "open"
      /\ ApplyState(r)
      /\ messageTimestamps' = r.mts
      /\ accepted' = IF r.ok THEN [accepted EXCEPT ![e.ws] = Append(@, now)]
                     ELSE accepted
      /\ UNCHANGED <<now, lastSweep, genCode, clientVars>>

RateNext ==
  \/ \E d \in Deltas : Tick(d)
  \/ \E ws \in RateConns : \E e \in RateEvents(ws) : Message(e)

RateSpec == Init /\ [][RateNext]_allVars

\* ------------------------------------------------------ the session sweep
\* the test of cleanupExpiredSessions deleting at the TTL already
Expired_atTTL(data, t) == t - data.createdAt >= SESSION_TOKEN_EXPIRY_MS

\* now - data.createdAt > SESSION_TOKEN_EXPIRY_MS
Expired(data, t) == t - data.createdAt > SESSION_TOKEN_EXPIRY_MS

\* cleanupExpiredSessions: the state it leaves
cleanupExpiredSessions(s) ==
  [s EXCEPT !.sessionTokens =
     [tok \in { k \in DOMAIN @ : ~Expired(@[k], s.now) } |-> @[tok]]]

\* the instants of the clock this specification looks at: the firing times
\* of the interval timer and the millisecond before each
Instants ==
  { k * SWEEP_INTERVAL_MS - o : k \in 1..MaxSweeps, o \in {0, 1} }

\* Date.now() has advanced to t; the timer fires before the clock passes
\* the time it is due
Advance(t) ==
  /\ t > now
  /\ t <= lastSweep + SWEEP_INTERVAL_MS
  /\ now' = t
  /\ UNCHANGED <<vars, messageTimestamps, accepted, lastSweep, genCode, clientVars>>

\* the interval timer fires: cleanupExpiredSessions runs
Sweep ==
  /\ now = lastSweep + SWEEP_INTERVAL_MS
  /\ ApplyState(Result(cleanupExpiredSessions(State), <<>>))
  /\ lastSweep' = now
  /\ UNCHANGED <<now, messageTimestamps, accepted, genCode, clientVars>>

SweepNext ==
  \/ \E ws \in RateConns, name \in NameInputs, draws \in DrawInputs :
       nextId <= MaxSessions /\ CreateRoom(ws, name, draws)
  \/ \E ws \in RateConns, code \in CodeInputs, name \in NameInputs :
       nextId <= MaxSessions /\ JoinRoom(ws, code, name)
  \/ \E ws \in RateConns : Close(ws)
  \/ \E t \in Instants : Advance(t)
  \/ Sweep

SweepSpec == Init /\ [][SweepNext]_allVars

\* ------------------------------------------------------ rooms side by side
\* the round messages of the connections, every player under the same name
RoomsNext ==
  \/ \E ws \in Conns, draws \in DrawInputs :
       CreateRoom(ws, <<" ", "A", "n", " ">>, draws)
  \/ \E ws \in Conns, code \in CodePool :
       JoinRoom(ws, code, <<" ", "A", "n", " ">>)
  \/ \E ws \in Conns : StartRound(ws)
  \/ \E ws \in Conns, card \in {Null, "5"} : SelectCard(ws, card)
  \/ \E ws \in Conns : RevealCards(ws)
  \/ \E ws \in Conns : ResetRound(ws)
  \/ \E ws \in Conns : CloseReveal(ws)
  \/ \E ws \in Conns : Close(ws)

RoomsSpec == Init /\ [][RoomsNext]_allVars

\* ------------------------------------------------ generateRoomCode's loop
\* the length of a code: the bound of the loop
CODE_LENGTH == 4

\* the values of Math.floor(Math.random() * chars.length)
RandomIndex == 0..(Len(GenChars) - 1)

\* code += chars[k], while i < 4
Draw(k) ==
  /\ Len(genCode) < CODE_LENGTH
  /\ genCode' = Append(genCode, GenChars[k + 1])
  /\ UNCHANGED <<vars, now, messageTimestamps, accepted, lastSweep, clientVars>>

\* the loop is over: the code is returned, or rooms has it and the call
\* starts again; either way the next call starts with code = ''
Return ==
  /\ Len(genCode) = CODE_LENGTH
  /\ genCode' = <<>>
  /\ UNCHANGED <<vars, now, messageTimestamps, accepted, lastSweep, clientVars>>

\* the value a call of generateRoomCode is about to return
Generated == Len(genCode) = CODE_LENGTH /\ genCode \notin DOMAIN rooms

GenNext ==
  \/ \E k \in RandomIndex : Draw(k)
  \/ Return

GenSpec == Init /\ [][GenNext]_allVars

\* --------------------------------------------------- the client's display
\* the events of the connections, every player under the same name
ViewEvents ==
  UNION { { Event("message", ws, ty) :
              ty \in {"start_round", "reveal_cards", "reset_round",
                      "close_reveal"} }
          \cup { [Event("message", ws, "select_card") EXCEPT !.card = c] :
                   c \in {Null, "5"} }
          \cup { [Event("message", ws, "join_room") EXCEPT
                    !.name = <<" ", "A", "n", " ">>, !.roomCode = c] :
                   c \in CodePool }
          \cup { [Event("message", ws, "create_room") EXCEPT
                    !.name = <<" ", "A", "n", " ">>, !.draws = d] :
                   d \in DrawInputs }
          \cup { Event("close", ws, "") } : ws \in Conns }

\* the server handles event e and the client of ClientWs handles the
\* messages sent to it
ServerEvent(e) ==
  LET r == Handle(State, e)
      inbox == SelectSeq(r.out, LAMBDA m : m.to = ClientWs)
      c == onMessages([game |-> game, timeouts |-> timeouts], inbox)
  IN  /\ Possible(State, e)
      /\ ApplyState(r)
      /\ game' = c.game
      /\ timeouts' = c.timeouts
      /\ received' = LastRoomState(received, inbox)
      /\ UNCHANGED <<rateVars, wsClient>>

\* the callback of the oldest setTimeout(..., 400) of onPlayerLeft runs
TimeoutFires ==
  /\ timeouts # <<>>
  /\ game' = updateState(game, Head(timeouts))
  /\ timeouts' = Tail(timeouts)
  /\ UNCHANGED <<vars, rateVars, received, wsClient>>

ViewNext ==
  \/ \E e \in ViewEvents : ServerEvent(e)
  \/ TimeoutFires

ViewSpec == Init /\ [][ViewNext]_allVars

\* ------------------------------------------------ the client's connection
\* init() of the page calls wsClient.connect()
PageConnects ==
  /\ wsClient.ws = "null"
  /\ wsClient' = connect(wsClient)
  /\ UNCHANGED <<vars, rateVars, game, timeouts, received>>

\* the socket being opened reports open
SocketOpens ==
  /\ wsClient.ws = "connecting"
  /\ wsClient' = onopen(wsClient)
  /\ UNCHANGED <<vars, rateVars, game, timeouts, received>>

\* the socket reports close: a socket that never opened closes abnormally
SocketCloses(code, rnd) ==
  /\ \/ wsClient.ws = "open"
     \/ wsClient.ws = "connecting" /\ code = 1006
  /\ wsClient' = onclose(wsClient, code, rnd)
  /\ UNCHANGED <<vars, rateVars, game, timeouts, received>>

\* the callback of setTimeout(..., delay) of attemptReconnect runs
ReconnectTimer ==
  /\ wsClient.timer # NoTimer
  /\ wsClient' = connect([wsClient EXCEPT !.timer = NoTimer])
  /\ UNCHANGED <<vars, rateVars, game, timeouts, received>>

ReconnectNext ==
  \/ PageConnects
  \/ SocketOpens
  \/ \E code \in CloseCodes, rnd \in RandomInputs : SocketCloses(code, rnd)
  \/ ReconnectTimer

ReconnectSpec == Init /\ [][ReconnectNext]_allVars

\* ------------------------------------------------- the server close to full
\* Connections beyond Conns have created rooms or joined one and stay idle:
\* the i-th of them is connection NumConns + i and its player has the id and
\* the session token MaxPlayers + i.
OtherWs(i) == NumConns + i

OtherId(i) == MaxPlayers + i

\* the code generateRoomCode drew for the room of the i-th idle connection
OtherCode(i) ==
  <<"A", "B", GenChars[((i - 1) \div Len(GenChars)) + 1],
    GenChars[((i - 1) % Len(GenChars)) + 1]>>

OtherName == <<"P">>

OtherPlayer(i, roomCode, isHost) ==
  [ws |-> OtherWs(i), id |-> OtherId(i), name |-> OtherName, isHost |-> isHost,
   selectedCard |-> Null, roomCode |-> roomCode, sessionToken |-> OtherId(i)]

\* the state after k idle connections have each sent create_room
ManyRooms(k) ==
  /\ status = [c \in 1..OtherWs(k) |-> "open"]
  /\ rooms = [code \in { OtherCode(i) : i \in 1..k } |->
                LET i == CHOOSE j \in 1..k : OtherCode(j) = code
                IN  [state |-> "waiting",
                     players |-> <<OtherPlayer(i, code, TRUE)>>]]
  /\ players = [c \in 1..OtherWs(k) \ Conns |->
                  [id |-> OtherId(c - NumConns),
                   roomCode |-> OtherCode(c - NumConns)]]
  /\ sessionTokens = [tok \in { OtherId(i) : i \in 1..k } |->
                        [playerId |-> tok,
                         roomCode |-> OtherCode(tok - MaxPlayers),
                         name |-> OtherName, createdAt |-> 0]]
  /\ nextId = 1

ManyRoomsInit ==
  /\ \E k \in { MAX_ROOMS - 2, MAX_ROOMS - 1 } : ManyRooms(k)
  /\ RateInit
  /\ ClientInit

ManyRoomsNext ==
  \/ \E ws \in Conns, name \in NameInputs, draws \in DrawInputs :
       CreateRoom(ws, name, draws)
  \/ \E ws \in Conns : Close(ws)

ManyRoomsSpec == ManyRoomsInit /\ [][ManyRoomsNext]_allVars

\* the state after one idle connection has created a room and k - 1 idle
\* connections have joined it
BigRoomCode == <<"A", "A", "A", GenChars[1]>>

BigRoom(k) ==
  /\ status = [c \in 1..OtherWs(k) |-> "open"]
  /\ rooms = [code \in {BigRoomCode} |->
                [state |-> "waiting",
                 players |-> [i \in 1..k |-> OtherPlayer(i, code, i = 1)]]]
  /\ players = [c \in 1..OtherWs(k) \ Conns |->
                  [id |-> OtherId(c - NumConns), roomCode |-> BigRoomCode]]
  /\ sessionTokens = [tok \in { OtherId(i) : i \in 1..k } |->
                        [playerId |-> tok, roomCode |-> BigRoomCode,
                         name |-> OtherName, createdAt |-> 0]]
  /\ nextId = 1

BigRoomInit ==
  /\ \E k \in { MAX_PLAYERS_PER_ROOM - 2, MAX_PLAYERS_PER_ROOM - 1 } : BigRoom(k)
  /\ RateInit
  /\ ClientInit

BigRoomNext ==
  \/ \E ws \in Conns, code \in CodeInputs, name \in NameInputs :
       JoinRoom(ws, code, name)
  \/ \E ws \in Conns : Close(ws)

BigRoomSpec == BigRoomInit /\ [][BigRoomNext]_allVars

\* the reference players[ws] resolves to the entry it was stored with
PlayerAliasInv ==
  \A ws \in DOMAIN players :
    /\ players[ws].roomCode \in DOMAIN rooms
    /\ MapHas(rooms[players[ws].roomCode].players, ws)
    /\ PlayerOf(State, ws).id = players[ws].id
    /\ PlayerOf(State, ws).roomCode = players[ws].roomCode

\* ------------------------------------------------------------ claims
\* the result of handling event e in the current state
After(e) == Handle(State, e)

Entries(code) == rooms[code].players

Hosts(code) == { i \in 1..Len(Entries(code)) : Entries(code)[i].isHost }

RoomsOf(ws) == { code \in DOMAIN rooms : MapHas(Entries(code), ws) }

\* C1: every live room with at least one player has exactly one player
\* with isHost = true.
ExactlyOneHost ==
  \A code \in DOMAIN rooms :
    Len(Entries(code)) > 0 => Cardinality(Hosts(code)) = 1

\* the card values a message carries
SnapshotCards(msg) ==
  { msg.roomState.players[i].card : i \in 1..Len(msg.roomState.players) }

OrderCards(msg) == { msg.revealOrder[i].card : i \in 1..Len(msg.revealOrder) }

\* C2: a message sent while its room is waiting or voting carries the card
\* null for every player; a card value other than null is carried only by
\* the cards_revealed message or by a snapshot of a room in state revealed.
RevealSecrecy ==
  \A e \in Events(State) :
    \A k \in 1..Len(After(e).out) :
      LET msg == After(e).out[k]
      IN  /\ msg.type # "cards_revealed" => OrderCards(msg) \subseteq {Null}
          /\ msg.roomState # NoState =>
               /\ msg.roomState.roomCode \in DOMAIN After(e).s.rooms
               /\ msg.roomState.state =
                    After(e).s.rooms[msg.roomState.roomCode].state
               /\ msg.type # "cards_revealed"
                    /\ msg.roomState.state \in {"waiting", "voting"}
                    => SnapshotCards(msg) = {Null}

\* C2 witness: a room in state voting where a member has selected a card, and
\* an event whose snapshot reaches another member showing hasSelected only.
RevealSecrecyWitness ==
  \E e \in Events(State) :
    \E k \in 1..Len(After(e).out) :
      LET msg == After(e).out[k]
      IN  /\ msg.type = "player_selected"
          /\ msg.to # e.ws
          /\ msg.roomState.state = "voting"
          /\ \E i \in 1..Len(msg.roomState.players) :
               /\ msg.roomState.players[i].hasSelected
               /\ msg.roomState.players[i].card = Null
               /\ Entries(msg.roomState.roomCode)[i].selectedCard \in {"5", "8"}

\* C3: a connection is a key of the membership of at most one live room, and
\* the player of every membership entry is the one players[connection] holds.
OneConnectionOnePlayerOneRoom ==
  /\ \A ws \in Conns : Cardinality(RoomsOf(ws)) <= 1
  /\ \A code \in DOMAIN rooms :
       \A i \in 1..Len(Entries(code)) :
         LET p == Entries(code)[i]
         IN  /\ p.ws \in DOMAIN players
             /\ players[p.ws].id = p.id
             /\ players[p.ws].roomCode = code

\* C4: once the close of a connection has been handled no live room has a
\* member keyed by it, and when every connection has closed no room is left.
ClosedConnectionRemoved ==
  /\ \A ws \in Conns : status[ws] = "closed" => RoomsOf(ws) = {}
  /\ (\A ws \in Conns : status[ws] = "closed") => DOMAIN rooms = {}

\* C5: every room of the room store has at least one player.
NoEmptyRoom == \A code \in DOMAIN rooms : Len(Entries(code)) >= 1

\* C5 witness: a room has been deleted when the connection of its last
\* member closed (a session entry still names it), and another room is live.
NoEmptyRoomWitness ==
  /\ \E ws \in Conns : status[ws] = "closed"
  /\ \E t \in DOMAIN sessionTokens :
       sessionTokens[t].roomCode \notin DOMAIN rooms
  /\ DOMAIN rooms # {}

\* the card inputs that are neither null nor in the fixed card set
InvalidCards ==
  { c \in CardInputs :
      c # Null /\ c \notin {"0", "1/2", "1", "2", "3", "5", "8", "13", "21",
                            "?", "coffee"} }

SelectEvents(s) == { e \in Events(s) : e.type = "select_card" }

RoomStateOf(ws) == rooms[players[ws].roomCode].state

IsErrorTo(out, ws) ==
  Len(out) = 1 /\ out[1].type = "error" /\ out[1].to = ws

\* C6 as stated: select_card with an invalid value is answered with an error
\* to the sender in every room state and changes nothing.
InvalidCardAlwaysError ==
  \A e \in SelectEvents(State) :
    e.card \in InvalidCards /\ HasPlayer(State, e.ws) =>
      /\ After(e).s = State
      /\ IsErrorTo(After(e).out, e.ws)

\* C6 amended: select_card with an invalid value changes nothing; it is
\* answered with an error to the sender when the sender's room is in state
\* voting and is dropped without any reply otherwise.
InvalidCardNoChange ==
  \A e \in SelectEvents(State) :
    e.card \in InvalidCards =>
      /\ After(e).s = State
      /\ IF HasPlayer(State, e.ws) /\ RoomStateOf(e.ws) = "voting"
         THEN After(e).out = <<ErrorMsg(e.ws, "Invalid card value")>>
         ELSE After(e).out = <<>>

\* C6 witness: an invalid select_card from a member who has a card selected
\* in a room in state voting, and one from a member of a revealed room.
InvalidCardWitness ==
  \E e \in SelectEvents(State) :
    /\ e.card \in InvalidCards
    /\ HasPlayer(State, e.ws)
    /\ RoomStateOf(e.ws) = "voting"
    /\ PlayerOf(State, e.ws).selectedCard # Null
    /\ IsErrorTo(After(e).out, e.ws)
    /\ \E ws \in Conns \ {e.ws} :
         /\ HasPlayer(State, ws)
         /\ RoomStateOf(ws) = "revealed"
         /\ Possible(State, [e EXCEPT !.ws = ws])

\* C7 as stated: select_card outside state voting changes nothing, sends no
\* broadcast and is answered with an error to the sender.
SelectOutsideVotingIsError ==
  \A e \in SelectEvents(State) :
    HasPlayer(State, e.ws) /\ RoomStateOf(e.ws) # "voting" =>
      /\ After(e).s = State
      /\ IsErrorTo(After(e).out, e.ws)

\* C7 amended: select_card outside state voting changes nothing and sends
\* no message at all, neither a broadcast nor a reply to the sender.
SelectOutsideVotingIgnored ==
  \A e \in SelectEvents(State) :
    HasPlayer(State, e.ws) /\ RoomStateOf(e.ws) # "voting" =>
      /\ After(e).s = State
      /\ After(e).out = <<>>

\* C7 witness: a valid select_card from a member of a revealed room in which
\* a card is selected.
SelectOutsideVotingWitness ==
  \E e \in SelectEvents(State) :
    /\ e.card \in {"5", "8"}
    /\ HasPlayer(State, e.ws)
    /\ RoomStateOf(e.ws) = "revealed"
    /\ PlayerOf(State, e.ws).selectedCard \notin {Null, e.card}
    /\ After(e).out = <<>>

\* C8: the state of a room changes only from waiting to voting, from voting
\* to revealed and from revealed to waiting.
RoundCycleOnly ==
  [][\A code \in DOMAIN rooms \cap DOMAIN rooms' :
       rooms'[code].state # rooms[code].state =>
         <<rooms[code].state, rooms'[code].state>> \in
           {<<"waiting", "voting">>, <<"voting", "revealed">>,
            <<"revealed", "waiting">>}]_allVars

HostOnlyTypes == {"start_round", "reveal_cards", "reset_round", "close_reveal"}

IsHostConn(ws) == HasPlayer(State, ws) /\ PlayerOf(State, ws).isHost

\* C9: a host-only message from a connection whose current player is not
\* host, or that has no player, changes nothing and sends no message; the
\* state of a room changes only by a message from that room's current host.
HostGating ==
  \A e \in Events(State) :
    /\ e.type \in HostOnlyTypes /\ ~IsHostConn(e.ws) =>
         After(e).s = State /\ After(e).out = <<>>
    /\ \A code \in DOMAIN rooms \cap DOMAIN After(e).s.rooms :
         After(e).s.rooms[code].state # rooms[code].state =>
           /\ e.kind = "message"
           /\ IsHostConn(e.ws)
           /\ players[e.ws].roomCode = code

\* C9 witness: a member that is not host, in a room in state voting where a
\* card is selected and whose host is another open connection.
HostGatingWitness ==
  \E ws \in Conns :
    /\ Possible(State, Event("message", ws, "start_round"))
    /\ HasPlayer(State, ws)
    /\ ~PlayerOf(State, ws).isHost
    /\ RoomStateOf(ws) = "voting"
    /\ PlayerOf(State, ws).selectedCard # Null
    /\ After(Event("message", ws, "reveal_cards")).out = <<>>
    /\ \E h \in Conns \ {ws} :
         /\ IsHostConn(h)
         /\ players[h].roomCode = players[ws].roomCode
         /\ After(Event("message", h, "reveal_cards")).out # <<>>

Keys(m) == [i \in 1..Len(m) |-> m[i].ws]

\* C10: when the connection of a room's host closes and players remain, the
\* first remaining entry of the join order is host and no other remaining
\* player is; when a non-host connection closes no host flag changes.
HandoverTarget ==
  \A ws \in Conns :
    Possible(State, Event("close", ws, "")) =>
      \A code \in RoomsOf(ws) :
        LET remaining == MapDelete(Entries(code), ws)
            r == After(Event("close", ws, "")).s.rooms
        IN  remaining # <<>> =>
              /\ code \in DOMAIN r
              /\ Keys(r[code].players) = Keys(remaining)
              /\ IF MapGet(Entries(code), ws).isHost
                 THEN \A i \in 1..Len(remaining) :
                        r[code].players[i].isHost = (i = 1)
                 ELSE \A i \in 1..Len(remaining) :
                        r[code].players[i].isHost = remaining[i].isHost

\* the close of ws is the departure of the host of its room and members remain
HostLeaves(ws) ==
  /\ Possible(State, Event("close", ws, ""))
  /\ IsHostConn(ws)
  /\ Len(Entries(players[ws].roomCode)) > 1

\* C11: when the host's connection closes and members remain, the first
\* message sent is became_host, to the new host's connection and to no other;
\* every message after it is the player_left broadcast, whose snapshot shows
\* the new host with isHost = true.
HandoverNotificationOrder ==
  \A ws \in Conns :
    HostLeaves(ws) =>
      LET r == After(Event("close", ws, ""))
          newHost == r.s.rooms[players[ws].roomCode].players[1]
      IN  /\ Len(r.out) >= 1
          /\ r.out[1].type = "became_host"
          /\ r.out[1].to = newHost.ws
          /\ \A k \in 2..Len(r.out) :
               /\ r.out[k].type = "player_left"
               /\ r.out[k].roomState.players[1].id = newHost.id
               /\ r.out[k].roomState.players[1].isHost

\* the accepted messages of ws that are less than a window old
Recent(ws) ==
  { i \in 1..Len(accepted[ws]) : now - accepted[ws][i] < RATE_LIMIT_WINDOW_MS }

RateLimitText == "Rate limit exceeded. Please slow down."

\* C12: a message arriving now is accepted iff fewer than 20 accepted
\* messages of its connection are less than 5000 ms old; a rejected message
\* is answered with an error to its sender, changes nothing and leaves the
\* connection open; an accepted one is time-stamped and passed on.
RateLimitWindow ==
  \A ws \in RateConns : \A e \in RateEvents(ws) :
    LET r == OnMessage(State, messageTimestamps, now, e)
    IN  /\ r.ok <=> Cardinality(Recent(ws)) < RATE_LIMIT_MAX_MESSAGES
        /\ r.s.status[ws] = "open"
        /\ \A c \in RateConns \ {ws} : r.mts[c] = messageTimestamps[c]
        /\ IF r.ok
           THEN /\ r.out = TryHandleMessage(State, ws, e).out
                /\ Len(r.mts[ws]) = Cardinality(Recent(ws)) + 1
           ELSE /\ r.out = <<ErrorMsg(ws, RateLimitText)>>
                /\ r.s = State

\* C12 witness: 20 messages of a connection were accepted at time 0 and the
\* 21st, arriving 4999 ms later, is rejected, while a message of another
\* connection with fewer accepted messages is accepted at the same time.
RateLimitWitness ==
  \E ws \in RateConns : \E e \in RateEvents(ws) :
    /\ now = RATE_LIMIT_WINDOW_MS - 1
    /\ Len(accepted[ws]) = RATE_LIMIT_MAX_MESSAGES
    /\ \A i \in 1..Len(accepted[ws]) : accepted[ws][i] = 0
    /\ ~OnMessage(State, messageTimestamps, now, e).ok
    /\ \E c \in RateConns \ {ws} : \E f \in RateEvents(c) :
         /\ Len(accepted[c]) >= 1
         /\ OnMessage(State, messageTimestamps, now, f).ok

ResetEvent(ws) == Event("message", ws, "reset_round")

\* C13: the host sending reset_round a second time leaves the state the first
\* one left and broadcasts the same snapshot to the same connections: state
\* waiting, every card null and hasSelected false, the players of before in
\* the same order with the same host.
ResetIdempotent ==
  \A ws \in Conns :
    Possible(State, ResetEvent(ws)) /\ IsHostConn(ws) =>
      LET once == After(ResetEvent(ws))
          twice == Handle(once.s, ResetEvent(ws))
          before == getRoomState(rooms, players[ws].roomCode, FALSE)
          snap == getRoomState(once.s.rooms, players[ws].roomCode, FALSE)
      IN  /\ twice.s = once.s
          /\ twice.out = once.out
          /\ Len(once.out) >= 1
          /\ \A k \in 1..Len(once.out) :
               once.out[k].type = "round_reset" /\ once.out[k].roomState = snap
          /\ snap.state = "waiting"
          /\ Len(snap.players) = Len(before.players)
          /\ \A i \in 1..Len(snap.players) :
               /\ snap.players[i].card = Null
               /\ ~snap.players[i].hasSelected
               /\ snap.players[i].id = before.players[i].id
               /\ snap.players[i].name = before.players[i].name
               /\ snap.players[i].isHost = before.players[i].isHost

\* C13 witness: the host of a revealed room with another member, where a card
\* is selected, can send reset_round.
ResetIdempotentWitness ==
  \E ws \in Conns :
    /\ Possible(State, ResetEvent(ws))
    /\ IsHostConn(ws)
    /\ RoomStateOf(ws) = "revealed"
    /\ Len(Entries(players[ws].roomCode)) >= 2
    /\ \E i \in 1..Len(Entries(players[ws].roomCode)) :
         Entries(players[ws].roomCode)[i].selectedCard # Null
    /\ Len(After(ResetEvent(ws)).out) >= 2

CreateEvents(s) == { e \in Events(s) : e.type = "create_room" }

\* C14: a create_room that makes a room gives it a code that is not the key
\* of a live room, and leaves every live room as it was; a code is given
\* again only when no live room holds it.
RoomCodesUnique ==
  \A e \in CreateEvents(State) :
    sanitizeName(e.name) # NullName =>
      LET r == After(e)
      IN  /\ Cardinality(DOMAIN r.s.rooms \ DOMAIN rooms) = 1
          /\ \A code \in DOMAIN rooms :
               code \in DOMAIN r.s.rooms /\ r.s.rooms[code] = rooms[code]
          /\ r.out[1].type = "room_created"
          /\ r.out[1].roomState.roomCode \in DOMAIN r.s.rooms \ DOMAIN rooms

\* C14 witness: a create_room whose first draw is the code of a live room
\* and whose second draw is the code of a room that was deleted (a session
\* entry still names it).
RoomCodesUniqueWitness ==
  \E e \in CreateEvents(State) :
    /\ sanitizeName(e.name) # NullName
    /\ e.draws[1] \in DOMAIN rooms
    /\ e.draws[2] \notin DOMAIN rooms
    /\ \E tok \in DOMAIN sessionTokens : sessionTokens[tok].roomCode = e.draws[2]
    /\ After(e).out[1].roomState.roomCode = e.draws[2]

\* C15: the room store never holds more than 1000 rooms; create_room with
\* 1000 live rooms is answered with an error and changes nothing; below
\* that, create_room with a valid name adds exactly one room, in state
\* waiting, whose only player is the sender's, host, with no card.
ServerCapacity ==
  /\ Cardinality(DOMAIN rooms) <= MAX_ROOMS
  /\ \A e \in CreateEvents(State) :
       IF Cardinality(DOMAIN rooms) = MAX_ROOMS
       THEN After(e).s = State /\ IsErrorTo(After(e).out, e.ws)
       ELSE sanitizeName(e.name) # NullName =>
              \E code \in DOMAIN After(e).s.rooms \ DOMAIN rooms :
                LET room == After(e).s.rooms[code]
                IN  /\ DOMAIN After(e).s.rooms = DOMAIN rooms \cup {code}
                    /\ room.state = "waiting"
                    /\ Len(room.players) = 1
                    /\ room.players[1].ws = e.ws
                    /\ room.players[1].isHost
                    /\ room.players[1].selectedCard = Null
                    /\ After(e).s.players[e.ws].id = room.players[1].id
                    /\ After(e).s.players[e.ws].roomCode = code

\* C15 witness: 1000 rooms are live, one of them made by a connection that
\* can send create_room with a valid name and a free code.
ServerCapacityWitness ==
  /\ Cardinality(DOMAIN rooms) = MAX_ROOMS
  /\ \E e \in CreateEvents(State) :
       /\ sanitizeName(e.name) # NullName
       /\ HasPlayer(State, e.ws)
       /\ IsErrorTo(After(e).out, e.ws)

JoinEvents(s) == { e \in Events(s) : e.type = "join_room" }

\* the room a join_room message names, NoCode if it names none
JoinTarget(e) ==
  IF IsString(e.roomCode) /\ toUpperCase(e.roomCode) \in DOMAIN rooms
  THEN toUpperCase(e.roomCode) ELSE NoCode

\* C16: no room has more than 50 players; join_room for a room that has 50
\* players is answered with an error to the sender and changes nothing.
RoomCapacity ==
  /\ \A code \in DOMAIN rooms : Len(Entries(code)) <= MAX_PLAYERS_PER_ROOM
  /\ \A e \in JoinEvents(State) :
       JoinTarget(e) # NoCode
         /\ Len(Entries(JoinTarget(e))) = MAX_PLAYERS_PER_ROOM =>
       After(e).s = State /\ IsErrorTo(After(e).out, e.ws)

\* C16 witness: a room has 50 players, and join_room with a valid name for
\* it comes from a connection that has no player.
RoomCapacityWitness ==
  \E e \in JoinEvents(State) :
    /\ JoinTarget(e) # NoCode
    /\ Len(Entries(JoinTarget(e))) = MAX_PLAYERS_PER_ROOM
    /\ sanitizeName(e.name) # NullName
    /\ ~HasPlayer(State, e.ws)
    /\ After(e).out = <<ErrorMsg(e.ws, "Room is full")>>

\* join_room e is answered with joined_room
JoinSucceeds(e) ==
  /\ JoinTarget(e) # NoCode
  /\ After(e).out # <<>>
  /\ After(e).out[1].type = "joined_room"

\* C17: a successful join_room, whatever the state of the room, appends the
\* new player at the end of the room's join order with isHost = false and no
\* card, and leaves the state of the room, the entries that were there and
\* every other room as they were.
JoinAppends ==
  \A e \in JoinEvents(State) :
    JoinSucceeds(e) =>
      LET old == Entries(JoinTarget(e))
          new == After(e).s.rooms[JoinTarget(e)].players
      IN  /\ Len(new) = Len(old) + 1
          /\ SubSeq(new, 1, Len(old)) = old
          /\ new[Len(new)].ws = e.ws
          /\ ~new[Len(new)].isHost
          /\ new[Len(new)].selectedCard = Null
          /\ After(e).s.rooms[JoinTarget(e)].state = rooms[JoinTarget(e)].state
          /\ DOMAIN After(e).s.rooms = DOMAIN rooms
          /\ \A code \in DOMAIN rooms \ {JoinTarget(e)} :
               After(e).s.rooms[code] = rooms[code]

\* a room code of 4 characters of [A-Z0-9], whatever the case of its letters
WellFormedCode(code) ==
  /\ IsString(code)
  /\ Len(code) = 4
  /\ \A i \in 1..4 : UpperChar(code[i]) \in AlnumUpper

\* create_room or join_room e fails a validation
ValidationFails(e) ==
  \/ /\ e.type = "create_room"
     /\ sanitizeName(e.name) = NullName
  \/ /\ e.type = "join_room"
     /\ \/ ~WellFormedCode(e.roomCode)
        \/ JoinTarget(e) = NoCode
        \/ sanitizeName(e.name) = NullName

\* C18: create_room or join_room with a name that sanitizes to empty,
\* join_room with a code that is not 4 characters of [A-Z0-9] and join_room
\* for a code without a live room are answered with one error, to the
\* sender, and leave rooms, memberships, the connection index and the
\* session registry as they were.
ValidationNoChange ==
  \A e \in Events(State) :
    ValidationFails(e) =>
      /\ After(e).s = State
      /\ IsErrorTo(After(e).out, e.ws)

\* C18 witness: a member of a live room sends join_room for that room with a
\* name that sanitizes to empty, and join_room for a well-formed code that
\* no live room has; another room member could hear a broadcast.
ValidationWitness ==
  \E e \in JoinEvents(State) :
    /\ HasPlayer(State, e.ws)
    /\ JoinTarget(e) = players[e.ws].roomCode
    /\ Len(Entries(JoinTarget(e))) >= 2
    /\ sanitizeName(e.name) = NullName
    /\ IsErrorTo(After(e).out, e.ws)
    /\ \E f \in JoinEvents(State) :
         /\ f.ws = e.ws
         /\ WellFormedCode(f.roomCode)
         /\ JoinTarget(f) = NoCode
         /\ sanitizeName(f.name) # NullName
         /\ After(f).out = <<ErrorMsg(f.ws, "Room not found")>>

\* the payload e cannot be parsed, or handling it raises an exception
Faulty(e) ==
  \/ e.kind \in {"unparsable", "null"}
  \/ e.type = "join_room" /\ e.roomCode = NonString

\* C19: a payload that cannot be parsed or whose handling raises an
\* exception is answered with one error, to the sender, and leaves the whole
\* server state as it was, the sender's connection open: whatever comes next
\* is handled as if the payload had not been sent.
FailureIsolation ==
  \A e \in Events(State) :
    Faulty(e) =>
      /\ After(e).s = State
      /\ After(e).s.status[e.ws] = "open"
      /\ After(e).out = <<ErrorMsg(e.ws, "Invalid message format")>>

\* C19 witness: the host of a room in state voting, with another member and
\* a card selected, sends an unparsable payload, a JSON null and a join_room
\* whose roomCode is not a text.
FailureIsolationWitness ==
  \E ws \in Conns :
    /\ IsHostConn(ws)
    /\ RoomStateOf(ws) = "voting"
    /\ Len(Entries(players[ws].roomCode)) >= 2
    /\ PlayerOf(State, ws).selectedCard # Null
    /\ \A kind \in {"unparsable", "null"} :
         /\ Event(kind, ws, "") \in Events(State)
         /\ IsErrorTo(After(Event(kind, ws, "")).out, ws)
    /\ \E e \in JoinEvents(State) :
         e.ws = ws /\ e.roomCode = NonString /\ IsErrorTo(After(e).out, ws)

\* the values of message.type that have a case in handleMessage
KnownTypes ==
  {"create_room", "join_room", "start_round", "select_card", "reveal_cards",
   "reset_round", "close_reveal"}

\* C20: a message whose type has no case in handleMessage, like the
\* transfer_host of the client, changes nothing (the host flags included)
\* and is answered with no message at all.
UnknownTypeIgnored ==
  \A e \in Events(State) :
    e.kind = "message" /\ e.type \notin KnownTypes =>
      /\ After(e).s = State
      /\ After(e).out = <<>>
      /\ \A code \in DOMAIN rooms :
           { i \in 1..Len(After(e).s.rooms[code].players) :
               After(e).s.rooms[code].players[i].isHost } = Hosts(code)

\* C20 witness: the host of a room with another member sends transfer_host.
UnknownTypeWitness ==
  \E ws \in Conns :
    /\ Event("message", ws, "transfer_host") \in Events(State)
    /\ IsHostConn(ws)
    /\ Len(Entries(players[ws].roomCode)) >= 2
    /\ Hosts(players[ws].roomCode) = {1}
    /\ After(Event("message", ws, "transfer_host")).out = <<>>

StartEvent(ws) == Event("message", ws, "start_round")

\* the open connections that key an entry of room code, in join order
OpenMembers(code) ==
  Keys(SelectSeq(Entries(code), LAMBDA p : status[p.ws] = "open"))

\* the connections the messages out are addressed to, in order
Recipients(out) == [k \in 1..Len(out) |-> out[k].to]

\* s and t differ at most in room code
SameButRoom(s, t, code) ==
  /\ DOMAIN t.rooms = DOMAIN s.rooms
  /\ \A c \in DOMAIN s.rooms \ {code} : t.rooms[c] = s.rooms[c]
  /\ t.status = s.status
  /\ t.players = s.players
  /\ t.sessionTokens = s.sessionTokens
  /\ t.nextId = s.nextId
  /\ t.now = s.now

\* C21: start_round from the host, whatever the state of the room, sets
\* every member's selectedCard to null and the state to voting, changes
\* nothing else, and sends round_started with the new snapshot once to every
\* open member connection, the host's included.
StartRoundEffect ==
  \A ws \in Conns :
    Possible(State, StartEvent(ws)) /\ IsHostConn(ws) =>
      LET r == After(StartEvent(ws))
          code == players[ws].roomCode
          old == Entries(code)
          new == r.s.rooms[code]
      IN  /\ new.state = "voting"
          /\ Len(new.players) = Len(old)
          /\ \A i \in 1..Len(old) :
               new.players[i] = [old[i] EXCEPT !.selectedCard = Null]
          /\ SameButRoom(State, r.s, code)
          /\ Recipients(r.out) = OpenMembers(code)
          /\ \E k \in 1..Len(r.out) : r.out[k].to = ws
          /\ \A k \in 1..Len(r.out) :
               /\ r.out[k].type = "round_started"
               /\ r.out[k].roomState = getRoomState(r.s.rooms, code, FALSE)
               /\ r.out[k].roomState.state = "voting"
               /\ \A i \in 1..Len(old) :
                    ~r.out[k].roomState.players[i].hasSelected

\* C21 witness: the host of a revealed room with another open member, both
\* with a card selected, can send start_round.
StartRoundWitness ==
  \E ws \in Conns :
    /\ Possible(State, StartEvent(ws))
    /\ IsHostConn(ws)
    /\ RoomStateOf(ws) = "revealed"
    /\ Len(OpenMembers(players[ws].roomCode)) >= 2
    /\ \A i \in 1..Len(Entries(players[ws].roomCode)) :
         Entries(players[ws].roomCode)[i].selectedCard # Null
    /\ Len(After(StartEvent(ws)).out) >= 2

RevealEvent(ws) == Event("message", ws, "reveal_cards")

\* C22: reveal_cards from the host sets the state to revealed and changes no
\* selectedCard; cards_revealed goes to the open members with a revealOrder
\* that lists every member once, in join order, with its selectedCard, and
\* with a snapshot showing for every player the stored selectedCard and
\* hasSelected true iff it is not null.
RevealEffect ==
  \A ws \in Conns :
    Possible(State, RevealEvent(ws)) /\ IsHostConn(ws) =>
      LET r == After(RevealEvent(ws))
          code == players[ws].roomCode
          old == Entries(code)
      IN  /\ r.s.rooms[code] = [rooms[code] EXCEPT !.state = "revealed"]
          /\ SameButRoom(State, r.s, code)
          /\ Recipients(r.out) = OpenMembers(code)
          /\ \A k \in 1..Len(r.out) :
               /\ r.out[k].type = "cards_revealed"
               /\ Len(r.out[k].revealOrder) = Len(old)
               /\ Len(r.out[k].roomState.players) = Len(old)
               /\ r.out[k].roomState.state = "revealed"
               /\ \A i \in 1..Len(old) :
                    /\ r.out[k].revealOrder[i].id = old[i].id
                    /\ r.out[k].revealOrder[i].name = old[i].name
                    /\ r.out[k].revealOrder[i].card = old[i].selectedCard
                    /\ r.out[k].roomState.players[i].id = old[i].id
                    /\ r.out[k].roomState.players[i].card = old[i].selectedCard
                    /\ r.out[k].roomState.players[i].hasSelected
                         = (old[i].selectedCard # Null)

\* C22 witness: the host of a room in state voting with two open members,
\* the first without a card and the second with one, can send reveal_cards.
RevealWitness ==
  \E ws \in Conns :
    /\ Possible(State, RevealEvent(ws))
    /\ IsHostConn(ws)
    /\ RoomStateOf(ws) = "voting"
    /\ Len(OpenMembers(players[ws].roomCode)) = 2
    /\ Len(Entries(players[ws].roomCode)) = 2
    /\ Entries(players[ws].roomCode)[1].selectedCard = Null
    /\ Entries(players[ws].roomCode)[2].selectedCard = "5"
    /\ Len(After(RevealEvent(ws)).out) = 2

CloseRevealEvent(ws) == Event("message", ws, "close_reveal")

\* C23: close_reveal from the host changes nothing, in every room state (the
\* state of the room, the cards, the host flags and the membership stay),
\* and sends reveal_closed, without a room-state payload, to the open
\* members.
CloseRevealEffect ==
  \A ws \in Conns :
    Possible(State, CloseRevealEvent(ws)) /\ IsHostConn(ws) =>
      LET r == After(CloseRevealEvent(ws))
      IN  /\ r.s = State
          /\ Recipients(r.out) = OpenMembers(players[ws].roomCode)
          /\ \A k \in 1..Len(r.out) :
               /\ r.out[k].type = "reveal_closed"
               /\ r.out[k].roomState = NoState
               /\ r.out[k].revealOrder = <<>>

\* C23 witness: the host of a revealed room with two open members and a card
\* selected can send close_reveal.
CloseRevealWitness ==
  \E ws \in Conns :
    /\ Possible(State, CloseRevealEvent(ws))
    /\ IsHostConn(ws)
    /\ RoomStateOf(ws) = "revealed"
    /\ Len(OpenMembers(players[ws].roomCode)) >= 2
    /\ \E i \in 1..Len(Entries(players[ws].roomCode)) :
         Entries(players[ws].roomCode)[i].selectedCard # Null
    /\ Len(After(CloseRevealEvent(ws)).out) >= 2

\* C24: a player's selectedCard is not null only if the player's room is in
\* state voting or revealed; in state waiting every selectedCard is null.
CardsOnlyInRound ==
  \A code \in DOMAIN rooms :
    \A i \in 1..Len(Entries(code)) :
      Entries(code)[i].selectedCard # Null =>
        rooms[code].state \in {"voting", "revealed"}

\* C24 witness: a room is in state waiting under a host that is not its first
\* player, while the host of another room, revealed with a selected card,
\* can send the reset_round that takes it to waiting.
CardsOnlyInRoundWitness ==
  \E code \in DOMAIN rooms :
    /\ rooms[code].state = "waiting"
    /\ Hosts(code) = {1}
    /\ Entries(code)[1].id > 1
    /\ \E ws \in Conns :
         /\ Possible(State, ResetEvent(ws))
         /\ IsHostConn(ws)
         /\ players[ws].roomCode # code
         /\ RoomStateOf(ws) = "revealed"
         /\ PlayerOf(State, ws).selectedCard # Null
         /\ After(ResetEvent(ws)).s.rooms[players[ws].roomCode].state = "waiting"

\* the age of the session entry of token tok
Age(tok) == now - sessionTokens[tok].createdAt

\* C25: a run of the sweep removes exactly the session entries older than 30
\* minutes and keeps the others as they are, whether their players are
\* still connected or not; a second run at the same instant removes
\* nothing; with the sweep run every 5 minutes no entry is ever older than
\* 35 minutes, and none older than 30 is left by a run.
SweepExact ==
  LET swept == cleanupExpiredSessions(State)
  IN  /\ DOMAIN swept.sessionTokens =
           { tok \in DOMAIN sessionTokens : Age(tok) <= 30 * 60 * 1000 }
      /\ \A tok \in DOMAIN swept.sessionTokens :
           swept.sessionTokens[tok] = sessionTokens[tok]
      /\ cleanupExpiredSessions(swept) = swept
      /\ \A tok \in DOMAIN sessionTokens : Age(tok) <= 35 * 60 * 1000

\* C25 witness: the sweep is due; one entry is 30 minutes and 1 ms old and
\* its player is still in a live room on an open connection, another is
\* younger and its room is gone.
SweepWitness ==
  /\ now = lastSweep + SWEEP_INTERVAL_MS
  /\ \E tok \in DOMAIN sessionTokens :
       /\ Age(tok) = 30 * 60 * 1000 + 1
       /\ \E ws \in DOMAIN players :
            players[ws].id = sessionTokens[tok].playerId /\ status[ws] = "open"
  /\ \E tok \in DOMAIN sessionTokens :
       /\ Age(tok) < 30 * 60 * 1000
       /\ sessionTokens[tok].roomCode \notin DOMAIN rooms

\* the reply r to create_room or join_room is room_created or joined_room
Admitted(e, r) ==
  /\ e.type \in {"create_room", "join_room"}
  /\ r.out # <<>>
  /\ r.out[1].type \in {"room_created", "joined_room"}

\* C26: a successful create_room or join_room adds exactly one session entry,
\* holding the new player's id, room code and name; no other message and no
\* close adds, removes or changes an entry (a handover and the deletion of a
\* room included); the sweep only removes entries and changes no room, no
\* membership and no connection index.
SessionLifetime ==
  /\ \A e \in Events(State) :
       LET r == After(e)
           new == r.s.sessionTokens
       IN  IF Admitted(e, r)
           THEN /\ r.out[1].sessionToken \notin DOMAIN sessionTokens
                /\ new = Put(sessionTokens, r.out[1].sessionToken,
                             [playerId |-> r.s.players[e.ws].id,
                              roomCode |-> r.s.players[e.ws].roomCode,
                              name |-> sanitizeName(e.name),
                              createdAt |-> now])
           ELSE new = sessionTokens
  /\ LET swept == cleanupExpiredSessions(State)
     IN  /\ DOMAIN swept.sessionTokens \subseteq DOMAIN sessionTokens
         /\ swept.rooms = rooms
         /\ swept.players = players
         /\ swept.status = status

\* C26 witness: the registry holds an entry of a deleted room whose
\* connection closed, the sweep would remove an entry while a room is live,
\* and a create_room would succeed.
SessionLifetimeWitness ==
  /\ \E tok \in DOMAIN sessionTokens :
       /\ sessionTokens[tok].roomCode \notin DOMAIN rooms
       /\ \E ws \in Conns : status[ws] = "closed"
  /\ DOMAIN cleanupExpiredSessions(State).sessionTokens # DOMAIN sessionTokens
  /\ DOMAIN rooms # {}
  /\ \E e \in CreateEvents(State) : Admitted(e, After(e))

\* the room event e acts on in state s: the room create_room makes, the room
\* join_room names, the room of the sender's player otherwise; NoCode if
\* there is none
Target(s, e) ==
  IF e.type = "create_room" THEN generateRoomCode(s.rooms, e.draws)
  ELSE IF e.type = "join_room"
  THEN IF IsString(e.roomCode) /\ toUpperCase(e.roomCode) \in DOMAIN s.rooms
       THEN toUpperCase(e.roomCode) ELSE NoCode
  ELSE IF HasPlayer(s, e.ws) THEN s.players[e.ws].roomCode
  ELSE NoCode

\* the events of connection ws taken in pairs
PairEvents(ws) ==
  { Event("message", ws, ty) :
      ty \in {"start_round", "reveal_cards", "reset_round", "close_reveal"} }
  \cup { [Event("message", ws, "select_card") EXCEPT !.card = "5"] }
  \cup { [Event("message", ws, "join_room") EXCEPT
            !.name = <<" ", "A", "n", " ">>, !.roomCode = c] : c \in CodePool }
  \cup { [Event("message", ws, "create_room") EXCEPT
            !.name = <<" ", "A", "n", " ">>, !.draws = d] : d \in DrawInputs }
  \cup { Event("close", ws, "") }

\* state s with the fresh values a and b (player ids, session tokens)
\* exchanged
SwapIds(s, a, b) ==
  LET Sw(x) == IF x = a THEN b ELSE IF x = b THEN a ELSE x
  IN  [s EXCEPT
        !.rooms = [code \in DOMAIN @ |->
                     [@[code] EXCEPT !.players =
                        [i \in 1..Len(@) |->
                           [@[i] EXCEPT !.id = Sw(@), !.sessionToken = Sw(@)]]]],
        !.players = [ws \in DOMAIN @ |-> [@[ws] EXCEPT !.id = Sw(@)]],
        !.sessionTokens = [tok \in { Sw(k) : k \in DOMAIN @ } |->
                             [@[Sw(tok)] EXCEPT !.playerId = Sw(@)]]]

\* the states after e then f and after f then e, re and rf being the
\* results of e and of f alone, are the same, the fresh values the two
\* events drew being named alike in both orders
Commute(e, re, f, rf) ==
  LET ef == Handle(re.s, f).s
      fe == Handle(rf.s, e).s
  IN  ef = IF Admitted(e, re) /\ Admitted(f, rf)
           THEN SwapIds(fe, nextId, nextId + 1)
           ELSE fe

\* C27: an event leaves every room but the one it acts on as it was and
\* sends messages only to its sender and to connections that key an entry
\* of that room; two events of different connections acting on different
\* rooms, the same in either order, leave the same state in either order.
RoomsIndependent ==
  /\ \A e \in Events(State) :
       LET r == After(e)
       IN  /\ \A code \in DOMAIN rooms \ {Target(State, e)} :
                code \in DOMAIN r.s.rooms /\ r.s.rooms[code] = rooms[code]
           /\ \A k \in 1..Len(r.out) :
                \/ r.out[k].to = e.ws
                \/ /\ Target(State, e) # NoCode
                   /\ MapHas(Entries(Target(State, e)), r.out[k].to)
  /\ LET open == { ws \in Conns : status[ws] = "open" }
         alone == [ws \in open |-> [e \in PairEvents(ws) |-> After(e)]]
     IN  \A ws1, ws2 \in open :
           ws1 < ws2 =>
             \A e \in PairEvents(ws1), f \in PairEvents(ws2) :
               /\ Target(State, e) # NoCode
               /\ Target(State, f) # NoCode
               /\ Target(State, e) # Target(State, f)
               /\ Target(alone[ws2][f].s, e) = Target(State, e)
               /\ Target(alone[ws1][e].s, f) = Target(State, f)
               => Commute(e, alone[ws1][e], f, alone[ws2][f])

\* C27 witness: the hosts of two rooms can both send a message that changes
\* their room, one of them reveal_cards broadcast to the two open members of
\* its room.
RoomsIndependentWitness ==
  \E ws1, ws2 \in Conns :
    /\ ws1 # ws2
    /\ IsHostConn(ws1)
    /\ IsHostConn(ws2)
    /\ players[ws1].roomCode # players[ws2].roomCode
    /\ RoomStateOf(ws1) = "voting"
    /\ Possible(State, RevealEvent(ws1))
    /\ Possible(State, StartEvent(ws2))
    /\ Len(After(RevealEvent(ws1)).out) = 2
    /\ Handle(After(RevealEvent(ws1)).s, StartEvent(ws2)).s.rooms # rooms

\* the characters easily taken for one another: I and 1, O and 0
Confusable == {"I", "1", "O", "0"}

\* a generated code has 4 characters of an alphabet of n symbols none of
\* which is confusable, and isValidRoomCode accepts it
GeneratedCodeShape(n) ==
  Generated =>
    /\ Len(genCode) = 4
    /\ \A i \in 1..Len(genCode) : genCode[i] \in SeqToSet(GenChars)
    /\ Cardinality(SeqToSet(GenChars)) = n
    /\ SeqToSet(GenChars) \cap Confusable = {}
    /\ isValidRoomCode(genCode)

\* C28 as stated: every generated room code has exactly 4 characters, each
\* of an alphabet of 33 symbols without confusable characters, and
\* satisfies isValidRoomCode.
GeneratedCode33 == GeneratedCodeShape(33)

\* C28: every generated room code has exactly 4 characters, each of an
\* alphabet of 32 symbols (the letters and digits without I, O, 0 and 1),
\* and satisfies isValidRoomCode.
GeneratedCode32 == GeneratedCodeShape(32)

\* C28 witness: a generated code of letters and digits from both ends of the
\* alphabet.
GeneratedCodeWitness ==
  /\ Generated
  /\ genCode = <<"Z", "9", "A", "2">>

SelectEvent(ws, card) ==
  [Event("message", ws, "select_card") EXCEPT !.card = card]

\* C29: a select_card with a valid card from a player whose room is in state
\* voting sets the selectedCard of the sender's entry to the card sent, null
\* included, and changes nothing else; player_selected, with a snapshot in
\* which the sender's hasSelected tells whether the card is not null, goes
\* to every open member connection of the room.
SelectCardEffect ==
  \A ws \in Conns, card \in CardInputs :
    /\ Possible(State, SelectEvent(ws, card))
    /\ HasPlayer(State, ws)
    /\ RoomStateOf(ws) = "voting"
    /\ isValidCard(card)
    => LET r == After(SelectEvent(ws, card))
           code == players[ws].roomCode
           old == Entries(code)
           new == r.s.rooms[code]
           me == IndexOf(old, ws, 1)
       IN  /\ new.state = "voting"
           /\ Len(new.players) = Len(old)
           /\ new.players[me] = [old[me] EXCEPT !.selectedCard = card]
           /\ \A i \in 1..Len(old) : i # me => new.players[i] = old[i]
           /\ SameButRoom(State, r.s, code)
           /\ Recipients(r.out) = OpenMembers(code)
           /\ \E k \in 1..Len(r.out) : r.out[k].to = ws
           /\ \A k \in 1..Len(r.out) :
                /\ r.out[k].type = "player_selected"
                /\ r.out[k].playerId = old[me].id
                /\ r.out[k].roomState = getRoomState(r.s.rooms, code, FALSE)
                /\ r.out[k].roomState.players[me].hasSelected = (card # Null)
                /\ \A i \in 1..Len(old) :
                     i # me => r.out[k].roomState.players[i].hasSelected
                                 = (old[i].selectedCard # Null)

\* C29 witness: a player holding card 5, in a voting room where another
\* player holds a card too, can send another card or null.
SelectCardWitness ==
  \E ws \in Conns :
    /\ HasPlayer(State, ws)
    /\ RoomStateOf(ws) = "voting"
    /\ PlayerOf(State, ws).selectedCard = "5"
    /\ \E i \in 1..Len(Entries(players[ws].roomCode)) :
         /\ Entries(players[ws].roomCode)[i].ws # ws
         /\ Entries(players[ws].roomCode)[i].selectedCard = "8"
    /\ Possible(State, SelectEvent(ws, "8"))
    /\ Possible(State, SelectEvent(ws, Null))
    /\ PlayerOf(After(SelectEvent(ws, Null)).s, ws).selectedCard = Null

\* C30: no room ever has more than one player with isHost = true.
AtMostOneHost ==
  \A code \in DOMAIN rooms : Cardinality(Hosts(code)) <= 1

\* C30 witness: a connection that sent create_room or join_room more than
\* once is the host of a room with further members; its close hands the
\* room over to an entry that was not host, while its entry in the room it
\* came from stays.
AtMostOneHostWitness ==
  \E ws \in Conns :
    /\ HostLeaves(ws)
    /\ Cardinality(RoomsOf(ws)) = 2
    /\ LET left == After(Event("close", ws, "")).s.rooms[players[ws].roomCode]
       IN  /\ left.players[1].isHost
           /\ ~Entries(players[ws].roomCode)[2].isHost
           /\ left.players[1].id = Entries(players[ws].roomCode)[2].id

\* connection ws is open and the dispatcher takes it for the host of room
\* code: a start_round from it puts that room in state voting
DrivesRound(ws, code) ==
  /\ status[ws] = "open"
  /\ IsHostConn(ws)
  /\ players[ws].roomCode = code
  /\ After(StartEvent(ws)).s.rooms[code].state = "voting"

\* C31: whenever a live room is the room of the current player of an open
\* connection, some open connection is taken by the dispatcher for the host of that room, so
\* that its start_round puts the room in state voting.
HostReachable ==
  \A code \in DOMAIN rooms :
    (\E ws \in Conns : /\ status[ws] = "open"
                       /\ HasPlayer(State, ws)
                       /\ players[ws].roomCode = code)
    => \E ws \in Conns : DrivesRound(ws, code)

\* C32: became_host goes only to a connection whose current player,
\* players[connection], is the player just made host of the room the
\* departed host left.
BecameHostToCurrentPlayer ==
  \A e \in Events(State) :
    LET r == After(e)
    IN  \A k \in 1..Len(r.out) :
          r.out[k].type = "became_host" =>
            LET to == r.out[k].to
                left == players[e.ws].roomCode
            IN  /\ e.kind = "close"
                /\ HasPlayer(r.s, to)
                /\ r.s.players[to].roomCode = left
                /\ PlayerOf(r.s, to).isHost
                /\ r.s.rooms[left].players[1].id = r.s.players[to].id

\* the payloads tried on the rate limiter: those of RateEvents and a
\* create_room that the dispatcher would answer with a new room
ProbeEvents(ws) ==
  RateEvents(ws)
  \cup { [Event("message", ws, "create_room") EXCEPT
            !.name = <<" ", "A", "n", " ">>,
            !.draws = <<<<"A", "A", "A", "A">>>>] }

\* the accepted messages of ws less than 5000 ms old at time t
RecentAt(ws, t) ==
  { i \in 1..Len(accepted[ws]) : t - accepted[ws][i] < RATE_LIMIT_WINDOW_MS }

\* C33: the time-stamp list of a connection holds times of accepted
\* messages only; a rejected message adds nothing to it and changes no room,
\* membership or session, so that the next message, whenever it arrives, is
\* accepted iff fewer than 20 accepted messages are then less than 5000 ms
\* old; at most 20 accepted messages of a connection lie in the 5000 ms up
\* to any of them.
RejectedCostsNothing ==
  \A ws \in RateConns :
    /\ Len(messageTimestamps[ws]) <= Len(accepted[ws])
    /\ \A k \in 1..Len(messageTimestamps[ws]) :
         messageTimestamps[ws][k] =
           accepted[ws][Len(accepted[ws]) - Len(messageTimestamps[ws]) + k]
    /\ accepted[ws] # <<>> =>
         Cardinality(RecentAt(ws, accepted[ws][Len(accepted[ws])]))
           <= RATE_LIMIT_MAX_MESSAGES
    /\ \A e \in ProbeEvents(ws) :
         LET r == OnMessage(State, messageTimestamps, now, e)
         IN  IF r.ok
             THEN e.type = "create_room" => r.s.rooms # rooms
             ELSE /\ r.s = State
                  /\ r.out = <<ErrorMsg(ws, RateLimitText)>>
                  /\ r.mts[ws] = InWindow(messageTimestamps[ws], now)
                  /\ Len(r.mts[ws]) <= Len(messageTimestamps[ws])
                  /\ \A d \in {0, 1} \cup Deltas : \A f \in ProbeEvents(ws) :
                       OnMessage(r.s, r.mts, now + d, f).ok
                         <=> Cardinality(RecentAt(ws, now + d))
                               < RATE_LIMIT_MAX_MESSAGES

\* C33 witness: 20 messages of a connection were accepted at time 0; at
\* 4999 ms its create_room is rejected, and so is the next message at
\* 4999 ms, while the one at 5000 ms is accepted.
RejectedCostsNothingWitness ==
  \E ws \in RateConns : \E e \in ProbeEvents(ws) :
    /\ now = RATE_LIMIT_WINDOW_MS - 1
    /\ Len(accepted[ws]) = RATE_LIMIT_MAX_MESSAGES
    /\ \A i \in 1..Len(accepted[ws]) : accepted[ws][i] = 0
    /\ e.type = "create_room"
    /\ LET r == OnMessage(State, messageTimestamps, now, e)
       IN  /\ ~r.ok
           /\ ~OnMessage(r.s, r.mts, now, e).ok
           /\ OnMessage(r.s, r.mts, now + 1, e).ok
           /\ OnMessage(r.s, r.mts, now + 1, e).s.rooms # rooms

\* C34: once no timer of the client is pending, the players list and the
\* game state it displays are those of the room state of the last message
\* it received.
ViewConverges ==
  timeouts = <<>> /\ received # NoState =>
    /\ game.players = received.players
    /\ game.gameState = received.state

\* the base delays of the reconnect attempts, in order
BaseDelays == <<1000, 2000, 4000, 8000, 16000>>

\* C35: the attempt counter is between 0 and 5 and is 0 while the socket is
\* open; the attempts scheduled since the socket was last open are as many
\* as the counter says, with base delays 1 s, 2 s, 4 s, 8 s, 16 s in this
\* order and delays within an eighth of them; a timer is pending only after
\* an unexpected close; after an unexpected close either a timer is pending
\* or an attempt is under way or, 5 attempts having failed, connection_lost
\* has been dispatched and nothing is pending; after a close with code 1000
\* nothing is pending and nothing was scheduled by it.
ReconnectBounded ==
  LET c == wsClient
  IN  /\ c.reconnectAttempts \in 0..5
      /\ c.ws = "open" => c.reconnectAttempts = 0 /\ c.timer = NoTimer
      /\ Len(c.scheduled) = c.reconnectAttempts
      /\ \A i \in 1..Len(c.scheduled) :
           /\ c.scheduled[i].base = BaseDelays[i]
           /\ 8 * c.scheduled[i].delay >= 7 * BaseDelays[i]
           /\ 8 * c.scheduled[i].delay <= 9 * BaseDelays[i]
      /\ c.timer # NoTimer =>
           /\ c.ws = "closed"
           /\ c.code # 1000
           /\ ~c.lost
           /\ c.timer = c.scheduled[Len(c.scheduled)].delay
      /\ c.lost <=> /\ c.ws = "closed"
                    /\ c.code # 1000
                    /\ c.timer = NoTimer
      /\ c.lost => c.reconnectAttempts = 5
      /\ c.ws = "closed" /\ c.code = 1000 =>
           /\ c.timer = NoTimer
           /\ c.reconnectAttempts = 0
           /\ ~c.lost

\* C35 witness: after an unexpected close five attempts, with delays below,
\* at and above their base delays, have failed: connection_lost has been
\* dispatched.
ReconnectBoundedWitness ==
  /\ wsClient.lost
  /\ Len(wsClient.scheduled) = 5
  /\ wsClient.scheduled[1].delay = 875
  /\ wsClient.scheduled[4].delay = 8000
  /\ wsClient.scheduled[5].delay = 17996

====
